---- MODULE Spec2Model ----
(***************************************************************************)
(* A model of generate.py: the resume text parser (parse_resume_data), the *)
(* renderer (generate_html), the PDF step (generate_pdf) and main.         *)
(*                                                                         *)
(* Text is a sequence of one-character strings, "\n" included, so that the *)
(* regular expressions and the str methods of the source are modelled on   *)
(* characters.  A few long literals of the source (template fragments, the *)
(* default competencies, the default location) are single tokens.          *)
(***************************************************************************)
EXTENDS Integers, Sequences, FiniteSets, TLC

\* ------------------------------------------------------------------------
\* Characters and str primitives
\* ------------------------------------------------------------------------

NL == "\n"

\* the characters str.strip() removes and \s matches
WS == {" ", "\t", "\n", "\r"}

\* [A-Z]
Upper == {"A", "B", "C", "D", "E", "F", "G", "H", "I", "J", "K", "L", "M",
          "N", "O", "P", "Q", "R", "S", "T", "U", "V", "W", "X", "Y", "Z"}

Min(S) == CHOOSE x \in S : \A y \in S : x <= y

Max(S) == CHOOSE x \in S : \A y \in S : x >= y

\* the literal pat occurs in s at index i
MatchAt(pat, s, i) ==
    /\ i >= 1
    /\ i + Len(pat) - 1 <= Len(s)
    /\ \A k \in 1..Len(pat) : s[i + k - 1] = pat[k]

\* leftmost occurrence of pat in s at or after from; 0 if none
Find(pat, s, from) ==
    LET H == {i \in from..(Len(s) - Len(pat) + 1) : MatchAt(pat, s, i)}
    IN  IF H = {} THEN 0 ELSE Min(H)

\* 'sub' in s
Contains(sub, s) == Find(sub, s, 1) # 0

\* s.startswith(pre)
StartsWith(s, pre) == MatchAt(pre, s, 1)

\* index of the first newline at or after i; Len(s) + 1 if none: where a
\* run of '.' that starts at i must stop
LineEnd(s, i) ==
    LET H == {j \in i..Len(s) : s[j] = NL}
    IN  IF H = {} THEN Len(s) + 1 ELSE Min(H)

RECURSIVE LStrip(_, _)
LStrip(s, cs) ==
    IF s # <<>> /\ Head(s) \in cs THEN LStrip(Tail(s), cs) ELSE s

RECURSIVE RStrip(_, _)
RStrip(s, cs) ==
    IF s # <<>> /\ s[Len(s)] \in cs
    THEN RStrip(SubSeq(s, 1, Len(s) - 1), cs)
    ELSE s

\* s.strip(chars)
StripChars(s, cs) == RStrip(LStrip(s, cs), cs)

\* s.strip()
Strip(s) == StripChars(s, WS)

\* s.split(c) for a one-character separator
RECURSIVE Split(_, _)
Split(s, c) ==
    LET e == Find(<<c>>, s, 1)
    IN  IF e = 0
        THEN <<s>>
        ELSE <<SubSeq(s, 1, e - 1)>> \o Split(SubSeq(s, e + 1, Len(s)), c)

\* s.replace(old, '')
RECURSIVE Remove(_, _)
Remove(s, old) ==
    LET e == Find(old, s, 1)
    IN  IF e = 0
        THEN s
        ELSE SubSeq(s, 1, e - 1) \o Remove(SubSeq(s, e + Len(old), Len(s)), old)

\* [f(x) for x in seq]
RECURSIVE Concat(_)
Concat(ss) == IF ss = <<>> THEN <<>> ELSE Head(ss) \o Concat(Tail(ss))

\* ------------------------------------------------------------------------
\* Literals of the source
\* ------------------------------------------------------------------------

L_NAME == <<"N", "A", "M", "E", ":", " ">>

L_PHONE == <<"P", "H", "O", "N", "E", ":", " ">>

L_EMAIL == <<"E", "M", "A", "I", "L", ":", " ">>

L_LOCATION == <<"L", "O", "C", "A", "T", "I", "O", "N", ":", " ">>

L_JOB_TITLE == <<"J", "O", "B", " ", "T", "I", "T", "L", "E">>

L_JOB_TITLE_C == L_JOB_TITLE \o <<":">>

L_JOB_TITLE_SP == L_JOB_TITLE \o <<":", " ">>

L_NL_COMPANY == <<NL, "C", "O", "M", "P", "A", "N", "Y", ":", " ">>

L_NL_DATES == <<NL, "D", "A", "T", "E", "S", ":", " ">>

L_DASH_SP == <<"-", " ">>

L_MATERNITY == <<"M", "A", "T", "E", "R", "N", "I", "T", "Y">>

L_EARLY == <<"E", "A", "R", "L", "Y">>

L_CORE == <<"C", "O", "R", "E">>

L_EDUCATION == <<"E", "D", "U", "C", "A", "T", "I", "O", "N">>

L_PERSONAL == <<"P", "E", "R", "S", "O", "N", "A", "L">>

L_Austria == <<"A", "u", "s", "t", "r", "i", "a">>


\* the decorative delimiter of the positional header line (U+2726)
Star == "U+2726"

\* the bullet glyph of the competency lines (U+2022)
BulletGlyph == "U+2022"

L_SUMMARY_NL == <<"S", "U", "M", "M", "A", "R", "Y", ":", "\n">>

L_EXEC_SUMMARY_NL == <<"E", "x", "e", "c", "u", "t", "i", "v", "e", " ", "S", "u", "m", "m", "a", "r", "y", "\n">>

L_TRANSITION_NL == <<"T", "R", "A", "N", "S", "I", "T", "I", "O", "N", " ", "N", "O", "T", "E", ":", "\n">>

L_CORE_COMP_NL == <<"C", "O", "R", "E", " ", "C", "O", "M", "P", "E", "T", "E", "N", "C", "I", "E", "S", ":", "\n">>

L_EDUCATION_NL2 == <<"E", "D", "U", "C", "A", "T", "I", "O", "N", ":", "\n", "\n">>

L_CERT_NL2 == <<"L", "I", "C", "E", "N", "S", "E", "S", " ", "&", " ", "C", "E", "R", "T", "I", "F", "I", "C", "A", "T", "I", "O", "N", "S", ":", "\n", "\n">>

L_PERSONAL_NL == <<"P", "E", "R", "S", "O", "N", "A", "L", ":", "\n">>

L_Graduated == <<"G", "r", "a", "d", "u", "a", "t", "e", "d">>

L_Graduated_SP == <<"G", "r", "a", "d", "u", "a", "t", "e", "d", " ">>

L_Pupil_Personnel == <<"P", "u", "p", "i", "l", " ", "P", "e", "r", "s", "o", "n", "n", "e", "l">>

L_Bachelor == <<"B", "a", "c", "h", "e", "l", "o", "r">>

L_Master == <<"M", "a", "s", "t", "e", "r">>

L_Issued == <<"I", "s", "s", "u", "e", "d">>

L_Issued_SP == <<"I", "s", "s", "u", "e", "d", " ">>

L_HR_HEADING == <<"H", "u", "m", "a", "n", " ", "R", "e", "s", "o", "u", "r", "c", "e", "s", " ", "E", "x", "p", "e", "r", "i", "e", "n", "c", "e", "\n", "\n">>

L_SCHOOL_HEADING == <<"S", "c", "h", "o", "o", "l", " ", "C", "o", "u", "n", "s", "e", "l", "i", "n", "g", " ", "E", "x", "p", "e", "r", "i", "e", "n", "c", "e", "\n", "\n">>

L_SCHOOL_NAME == <<"S", "c", "h", "o", "o", "l", " ", "C", "o", "u", "n", "s", "e", "l", "i", "n", "g", " ", "E", "x", "p", "e", "r", "i", "e", "n", "c", "e">>

L_Education == <<"E", "d", "u", "c", "a", "t", "i", "o", "n">>

\* "Vienna, Austria", the default location, as one token
DefaultLocation == <<"Vienna, Austria">>

\* the four default competencies, each as one token
DefaultCompetencies ==
    << <<"Strategic HR Leadership & Business Partnership">>,
       <<"Global Operations & Cultural Integration">>,
       <<"Employee Relations & Workplace Investigations">>,
       <<"Process Development & Change Management">> >>

\* None, as the value of an education entry's details
None == <<"None">>

\* ------------------------------------------------------------------------
\* parse_resume_data: contact block
\* ------------------------------------------------------------------------

\* re.search(label + r'(.+)', content): index of the leftmost occurrence of
\* the label that is followed by a character other than a newline; 0 if none
SearchField(label, s) ==
    LET H == {i \in 1..Len(s) : /\ MatchAt(label, s, i)
                                /\ i + Len(label) <= Len(s)
                                /\ s[i + Len(label)] # NL}
    IN  IF H = {} THEN 0 ELSE Min(H)

\* .group(1) of that match: the rest of the line
FieldGroup(label, s) ==
    LET g == SearchField(label, s) + Len(label)
    IN  SubSeq(s, g, LineEnd(s, g) - 1)

\* s[i..j-1] is a non-empty run of whitespace (\s+)
WsRun(s, i, j) == i < j /\ \A k \in i..(j - 1) : s[k] \in WS

\* The header pattern (.+?)\s+(.+?)\s+STAR\s+(.+?)\s+STAR\s+(.+) on a line
\* without newline.  A match is fixed by the indices
\*   a  start of group 1        b  end of group 1 (start of \s+)
\*   c  start of group 2        d  end of group 2 (start of \s+)
\*   e  first delimiter         f  start of group 3
\*   g  end of group 3          h  second delimiter
\*   k  start of group 4, which runs to the end of the line.
\* HdrK .. HdrA say that the rest of the pattern can match from an index.
HdrK(s, h) == {k \in (h + 2)..Len(s) : WsRun(s, h + 1, k)}

HdrH(s, g) ==
    {h \in (g + 1)..Len(s) : WsRun(s, g, h) /\ s[h] = Star /\ HdrK(s, h) # {}}

HdrG(s, f) == {g \in (f + 1)..Len(s) : HdrH(s, g) # {}}

HdrF(s, e) == {f \in (e + 2)..Len(s) : WsRun(s, e + 1, f) /\ HdrG(s, f) # {}}

HdrE(s, d) ==
    {e \in (d + 1)..Len(s) : WsRun(s, d, e) /\ s[e] = Star /\ HdrF(s, e) # {}}

HdrD(s, c) == {d \in (c + 1)..Len(s) : HdrE(s, d) # {}}

HdrC(s, b) == {c \in (b + 1)..Len(s) : WsRun(s, b, c) /\ HdrD(s, c) # {}}

HdrB(s, a) == {b \in (a + 1)..Len(s) : HdrC(s, b) # {}}

HdrA(s) == {a \in 1..Len(s) : HdrB(s, a) # {}}

\* re.search of the header pattern: the leftmost start; lazy groups take
\* the shortest extent and greedy \s+ the longest that lets the rest match
header_match(s) ==
    IF HdrA(s) = {}
    THEN [found |-> FALSE, g1 |-> <<>>, g2 |-> <<>>, g3 |-> <<>>, g4 |-> <<>>]
    ELSE LET a == Min(HdrA(s))
             b == Min(HdrB(s, a))
             c == Max(HdrC(s, b))
             d == Min(HdrD(s, c))
             e == Max(HdrE(s, d))
             f == Max(HdrF(s, e))
             g == Min(HdrG(s, f))
             h == Max(HdrH(s, g))
             k == Max(HdrK(s, h))
         IN  [found |-> TRUE,
              g1 |-> SubSeq(s, a, b - 1),
              g2 |-> SubSeq(s, c, d - 1),
              g3 |-> SubSeq(s, f, g - 1),
              g4 |-> SubSeq(s, k, Len(s))]

\* lines 20-42: the four contact fields, or the AttributeError of calling
\* .group on None when NAME matches and another label does not
ParseContact(content) ==
    IF SearchField(L_NAME, content) # 0
    THEN IF \/ SearchField(L_PHONE, content) = 0
            \/ SearchField(L_EMAIL, content) = 0
            \/ SearchField(L_LOCATION, content) = 0
         THEN [raised |-> TRUE, name |-> <<>>, phone |-> <<>>,
               email |-> <<>>, location |-> <<>>]
         ELSE [raised |-> FALSE,
               name |-> FieldGroup(L_NAME, content),
               phone |-> FieldGroup(L_PHONE, content),
               email |-> FieldGroup(L_EMAIL, content),
               location |-> FieldGroup(L_LOCATION, content)]
    ELSE LET first_line == Split(content, NL)[1]
             hm == header_match(first_line)
             parts == Split(first_line, Star)
         IN  IF hm.found
             THEN [raised |-> FALSE,
                   name |-> Strip(hm.g1),
                   location |-> Strip(hm.g2),
                   phone |-> Strip(hm.g3),
                   email |-> Strip(hm.g4)]
             ELSE [raised |-> FALSE,
                   name |-> Strip(parts[1]),
                   phone |-> IF Len(parts) > 1 THEN Strip(parts[2]) ELSE <<>>,
                   email |-> IF Len(parts) > 2 THEN Strip(parts[3]) ELSE <<>>,
                   location |-> DefaultLocation]

\* ------------------------------------------------------------------------
\* parse_resume_data: sections found by a DOTALL pattern  hdr(.+?)(?=...)
\* ------------------------------------------------------------------------

\* (?=\n[A-Z]) at index p
LaUpperLine(s, p) == p + 1 <= Len(s) /\ s[p] = NL /\ s[p + 1] \in Upper

\* (?=\n\n[A-Z]) at index p
LaBlankUpperLine(s, p) ==
    p + 2 <= Len(s) /\ s[p] = NL /\ s[p + 1] = NL /\ s[p + 2] \in Upper

\* $ at index p: the end of the text, or just before a final newline
AtDollar(s, p) == p = Len(s) + 1 \/ (p = Len(s) /\ s[p] = NL)

\* (?=\n[A-Z][A-Z\s&]+:|$) at index p
LaHeaderOrEnd(s, p) ==
    \/ /\ LaUpperLine(s, p)
       /\ \E q \in (p + 3)..Len(s) :
             /\ s[q] = ":"
             /\ \A r \in (p + 2)..(q - 1) : s[r] \in Upper \cup WS \cup {"&"}
    \/ AtDollar(s, p)

\* the lookahead named la holds at index p
La(la, s, p) ==
    CASE la = "upper_line" -> LaUpperLine(s, p)
      [] la = "blank_upper_line" -> LaBlankUpperLine(s, p)
      [] la = "header_or_end" -> LaHeaderOrEnd(s, p)

\* re.search(hdr + '(.+?)' + lookahead, content, re.DOTALL): the group
\* starts after the leftmost hdr and stops at the first index, at least one
\* character on, where the lookahead holds
SectionSearch(hdr, s, la) ==
    LET i  == Find(hdr, s, 1)
        g0 == i + Len(hdr)
        P  == {p \in (g0 + 1)..(Len(s) + 1) : La(la, s, p)}
    IN  IF i = 0 \/ P = {}
        THEN [found |-> FALSE, group |-> <<>>]
        ELSE [found |-> TRUE, group |-> SubSeq(s, g0, Min(P) - 1)]

\* lines 44-54
ParseSummary(content) ==
    LET summary_match == SectionSearch(L_SUMMARY_NL, content, "upper_line")
        exec_summary_match ==
            SectionSearch(L_EXEC_SUMMARY_NL, content, "blank_upper_line")
    IN  IF summary_match.found THEN Strip(summary_match.group)
        ELSE IF exec_summary_match.found THEN Strip(exec_summary_match.group)
        ELSE <<>>

\* lines 56-58
ParseTransition(content) ==
    IF SearchField(L_TRANSITION_NL, content) # 0
    THEN FieldGroup(L_TRANSITION_NL, content)
    ELSE <<>>

\* lines 296-298: PERSONAL:\n(.+) with DOTALL runs to the end of the text
ParsePersonal(content) ==
    LET i == Find(L_PERSONAL_NL, content, 1)
        g0 == i + Len(L_PERSONAL_NL)
    IN  IF i # 0 /\ g0 <= Len(content)
        THEN Strip(SubSeq(content, g0, Len(content)))
        ELSE <<>>

\* ------------------------------------------------------------------------
\* parse_resume_data: jobs of the labeled layout
\* ------------------------------------------------------------------------

\* JOB TITLE: (.+?)\nCOMPANY: (.+?)\nDATES: (.+?) from index i.  No group
\* can hold a newline, so each group is the rest of its line, and what
\* follows DATES must hold at the end e3 of its line.
JobT0(i) == i + Len(L_JOB_TITLE_SP)

JobE1(s, i) == LineEnd(s, JobT0(i))

JobC0(s, i) == JobE1(s, i) + Len(L_NL_COMPANY)

JobE2(s, i) == LineEnd(s, JobC0(s, i))

JobD0(s, i) == JobE2(s, i) + Len(L_NL_DATES)

JobE3(s, i) == LineEnd(s, JobD0(s, i))

JobHeadAt(s, i) ==
    /\ MatchAt(L_JOB_TITLE_SP, s, i)
    /\ JobT0(i) < JobE1(s, i)
    /\ MatchAt(L_NL_COMPANY, s, JobE1(s, i))
    /\ JobC0(s, i) < JobE2(s, i)
    /\ MatchAt(L_NL_DATES, s, JobE2(s, i))
    /\ JobD0(s, i) < JobE3(s, i)

JobTitle(s, i) == SubSeq(s, JobT0(i), JobE1(s, i) - 1)

JobCompany(s, i) == SubSeq(s, JobC0(s, i), JobE2(s, i) - 1)

JobDates(s, i) == SubSeq(s, JobD0(s, i), JobE3(s, i) - 1)

\* (?:- .+\n?)+ from index b, greedy: the index after the last line taken
RECURSIVE BulletsEnd(_, _)
BulletsEnd(s, b) ==
    IF MatchAt(L_DASH_SP, s, b) /\ b + 2 <= Len(s) /\ s[b + 2] # NL
    THEN LET e == LineEnd(s, b + 2)
         IN  IF e <= Len(s) THEN BulletsEnd(s, e + 1) ELSE e
    ELSE b

\* job_with_bullets_pattern matches at index i
BulletedAt(s, i) ==
    /\ JobHeadAt(s, i)
    /\ JobE3(s, i) <= Len(s)
    /\ BulletsEnd(s, JobE3(s, i) + 1) > JobE3(s, i) + 1

\* line 69: the bullets of the captured group
RECURSIVE bullet_list(_)
bullet_list(lines) ==
    IF lines = <<>> THEN <<>>
    ELSE LET line == Head(lines)
         IN  (IF StartsWith(Strip(line), <<"-">>)
              THEN << Strip(StripChars(line, {"-", " "})) >>
              ELSE <<>>) \o bullet_list(Tail(lines))

\* lines 66-75: re.finditer of the bulleted pattern from index from on
RECURSIVE BulletedJobs(_, _)
BulletedJobs(s, from) ==
    LET H == {i \in from..Len(s) : BulletedAt(s, i)}
    IN  IF H = {} THEN <<>>
        ELSE LET i   == Min(H)
                 b0  == JobE3(s, i) + 1
                 end == BulletsEnd(s, b0)
             IN  << [title   |-> JobTitle(s, i),
                     company |-> JobCompany(s, i),
                     dates   |-> JobDates(s, i),
                     bullets |-> bullet_list(Split(SubSeq(s, b0, end - 1), NL))] >>
                 \o BulletedJobs(s, end)

\* (?=\n\n|\nJOB TITLE|\nMATERNITY|\nEARLY|\nCORE|\nEDUCATION|\nPERSONAL|$)
LaJobEnd(s, p) ==
    \/ /\ p <= Len(s)
       /\ s[p] = NL
       /\ \/ MatchAt(<<NL>>, s, p + 1)
          \/ MatchAt(L_JOB_TITLE, s, p + 1)
          \/ MatchAt(L_MATERNITY, s, p + 1)
          \/ MatchAt(L_EARLY, s, p + 1)
          \/ MatchAt(L_CORE, s, p + 1)
          \/ MatchAt(L_EDUCATION, s, p + 1)
          \/ MatchAt(L_PERSONAL, s, p + 1)
    \/ AtDollar(s, p)

\* job_without_bullets_pattern matches at index i
BulletlessAt(s, i) == JobHeadAt(s, i) /\ LaJobEnd(s, JobE3(s, i))

\* re.finditer of the bulletless pattern: the start indices, in text order
RECURSIVE BulletlessMatches(_, _)
BulletlessMatches(s, from) ==
    LET H == {i \in from..Len(s) : BulletlessAt(s, i)}
    IN  IF H = {} THEN <<>>
        ELSE <<Min(H)>> \o BulletlessMatches(s, JobE3(s, Min(H)))

\* line 82
already_exists(jobs, title, company) ==
    \E n \in 1..Len(jobs) :
        jobs[n].title = Strip(title) /\ jobs[n].company = Strip(company)

\* lines 79-89: the loop over the bulletless matches
RECURSIVE AppendBulletless(_, _, _)
AppendBulletless(jobs, s, ms) ==
    IF ms = <<>> THEN jobs
    ELSE LET i == Head(ms)
         IN  AppendBulletless(
                 IF already_exists(jobs, JobTitle(s, i), JobCompany(s, i))
                 THEN jobs
                 ELSE Append(jobs, [title   |-> Strip(JobTitle(s, i)),
                                    company |-> Strip(JobCompany(s, i)),
                                    dates   |-> Strip(JobDates(s, i)),
                                    bullets |-> <<>>]),
                 s, Tail(ms))

\* lines 64-89 with the two passes in the other order
ParseLabeledJobs_BulletlessFirst(content) ==
    AppendBulletless(<<>>, content, BulletlessMatches(content, 1))
    \o BulletedJobs(content, 1)

\* lines 64-89
ParseLabeledJobs(content) ==
    AppendBulletless(BulletedJobs(content, 1), content,
                     BulletlessMatches(content, 1))

\* ------------------------------------------------------------------------
\* parse_resume_data: competencies, education, certifications
\* ------------------------------------------------------------------------

\* line 179
RECURSIVE comp_list(_)
comp_list(lines) ==
    IF lines = <<>> THEN <<>>
    ELSE LET line == Head(lines)
         IN  (IF StartsWith(Strip(line), <<BulletGlyph>>)
              THEN << Strip(StripChars(line, {BulletGlyph, " "})) >>
              ELSE <<>>) \o comp_list(Tail(lines))

\* lines 175-187
ParseCompetencies(content) ==
    LET comp_match == SectionSearch(L_CORE_COMP_NL, content, "upper_line")
    IN  IF comp_match.found
        THEN comp_list(Split(Strip(comp_match.group), NL))
        ELSE DefaultCompetencies

\* lines 197-228: the line scanner of the labeled education section; i is
\* the 0-based line index of the source
RECURSIVE EduScan(_, _, _)
EduScan(lines, i, acc) ==
    IF i >= Len(lines) THEN acc
    ELSE
    LET line == Strip(lines[i + 1])
    IN  IF /\ line # <<>>
           /\ ~StartsWith(line, L_Graduated)
           /\ ~StartsWith(line, L_Pupil_Personnel)
        THEN LET school  == IF i + 1 < Len(lines)
                            THEN Strip(lines[i + 2]) ELSE <<>>
                 hasDate == /\ i + 2 < Len(lines)
                            /\ StartsWith(Strip(lines[i + 3]), L_Graduated)
                 date    == IF hasDate
                            THEN Remove(Strip(lines[i + 3]), L_Graduated_SP)
                            ELSE <<>>
                 i1      == IF hasDate THEN i + 1 ELSE i
                 hasDet  == /\ i1 + 2 < Len(lines)
                            /\ Strip(lines[i1 + 3]) # <<>>
                            /\ ~StartsWith(Strip(lines[i1 + 3]), L_Bachelor)
                            /\ ~StartsWith(Strip(lines[i1 + 3]), L_Master)
                 i2      == IF hasDet THEN i1 + 1 ELSE i1
             IN  EduScan(lines, i2 + 2,
                         Append(acc, [degree  |-> line,
                                      school  |-> school,
                                      date    |-> date,
                                      details |-> IF hasDet
                                                  THEN Strip(lines[i1 + 3])
                                                  ELSE None]))
        ELSE EduScan(lines, i + 1, acc)

\* lines 270-293: the line scanner of the certifications section
RECURSIVE CertScan(_, _, _)
CertScan(lines, i, acc) ==
    IF i >= Len(lines) THEN acc
    ELSE
    LET line == Strip(lines[i + 1])
    IN  IF line # <<>> /\ ~StartsWith(line, L_Issued)
        THEN LET organization == IF i + 1 < Len(lines)
                                 THEN Strip(lines[i + 2]) ELSE <<>>
                 hasDate == /\ i + 2 < Len(lines)
                            /\ StartsWith(Strip(lines[i + 3]), L_Issued)
                 date    == IF hasDate
                            THEN Remove(Strip(lines[i + 3]), L_Issued_SP)
                            ELSE <<>>
             IN  CertScan(lines, i + 3,
                          Append(acc, [name         |-> line,
                                       organization |-> organization,
                                       date         |-> date]))
        ELSE CertScan(lines, i + 1, acc)

\* lines 198-228: one iteration of the education loop at index i: the index
\* it leaves and the record it appends, if any
EduIter(lines, i) ==
    LET line == Strip(lines[i + 1])
    IN  IF /\ line # <<>>
           /\ ~StartsWith(line, L_Graduated)
           /\ ~StartsWith(line, L_Pupil_Personnel)
        THEN LET school  == IF i + 1 < Len(lines)
                            THEN Strip(lines[i + 2]) ELSE <<>>
                 hasDate == /\ i + 2 < Len(lines)
                            /\ StartsWith(Strip(lines[i + 3]), L_Graduated)
                 date    == IF hasDate
                            THEN Remove(Strip(lines[i + 3]), L_Graduated_SP)
                            ELSE <<>>
                 i1      == IF hasDate THEN i + 1 ELSE i
                 hasDet  == /\ i1 + 2 < Len(lines)
                            /\ Strip(lines[i1 + 3]) # <<>>
                            /\ ~StartsWith(Strip(lines[i1 + 3]), L_Bachelor)
                            /\ ~StartsWith(Strip(lines[i1 + 3]), L_Master)
                 i2      == IF hasDet THEN i1 + 1 ELSE i1
             IN  [appends |-> TRUE,
                  i       |-> i2 + 2,
                  record  |-> [degree  |-> line,
                               school  |-> school,
                               date    |-> date,
                               details |-> IF hasDet
                                           THEN Strip(lines[i1 + 3])
                                           ELSE None]]
        ELSE [appends |-> FALSE, i |-> i + 1, record |-> <<>>]

\* lines 271-293 with 'i += 2' in place of 'i += 3'
CertIter_Skip2(lines, i) ==
    LET line == Strip(lines[i + 1])
    IN  IF line # <<>> /\ ~StartsWith(line, L_Issued)
        THEN [appends |-> TRUE,
              i       |-> i + 2,
              record  |-> [name         |-> line,
                           organization |-> IF i + 1 < Len(lines)
                                            THEN Strip(lines[i + 2]) ELSE <<>>,
                           date         |-> <<>>]]
        ELSE [appends |-> FALSE, i |-> i + 1, record |-> <<>>]

\* lines 271-293: one iteration of the certifications loop at index i
CertIter(lines, i) ==
    LET line == Strip(lines[i + 1])
    IN  IF line # <<>> /\ ~StartsWith(line, L_Issued)
        THEN LET organization == IF i + 1 < Len(lines)
                                 THEN Strip(lines[i + 2]) ELSE <<>>
                 hasDate == /\ i + 2 < Len(lines)
                            /\ StartsWith(Strip(lines[i + 3]), L_Issued)
                 date    == IF hasDate
                            THEN Remove(Strip(lines[i + 3]), L_Issued_SP)
                            ELSE <<>>
             IN  [appends |-> TRUE,
                  i       |-> i + 3,
                  record  |-> [name         |-> line,
                               organization |-> organization,
                               date         |-> date]]
        ELSE [appends |-> FALSE, i |-> i + 1, record |-> <<>>]

\* lines 263-293
ParseCertifications(content) ==
    LET cert_match == SectionSearch(L_CERT_NL2, content, "header_or_end")
    IN  IF cert_match.found
        THEN CertScan(Split(Strip(cert_match.group), NL), 0, <<>>)
        ELSE <<>>

\* ------------------------------------------------------------------------
\* parse_resume_data: the sections of the positional layout
\* ------------------------------------------------------------------------

\* [a-z]
Lower == {"a", "b", "c", "d", "e", "f", "g", "h", "i", "j", "k", "l", "m",
          "n", "o", "p", "q", "r", "s", "t", "u", "v", "w", "x", "y", "z"}

\* \d
Digit == {"0", "1", "2", "3", "4", "5", "6", "7", "8", "9"}

L_School_Counselor ==
    <<"S", "c", "h", "o", "o", "l", " ", "C", "o", "u", "n", "s", "e", "l", "o", "r">>

\* index of the first character at or after i that is not in cs
RunEnd(s, i, cs) ==
    LET H == {j \in i..Len(s) : s[j] \notin cs}
    IN  IF H = {} THEN Len(s) + 1 ELSE Min(H)

\* index of the first character at or after i that is in cs
FirstIn(s, i, cs) ==
    LET H == {j \in i..Len(s) : s[j] \in cs}
    IN  IF H = {} THEN Len(s) + 1 ELSE Min(H)

\* [A-Z][a-z]+ \d{4} at index i: the index after the match, 0 if no match
DateAt(s, i) ==
    LET j == RunEnd(s, i + 1, Lower)
    IN  IF /\ i >= 1 /\ i <= Len(s) /\ s[i] \in Upper
           /\ j > i + 1
           /\ j + 4 <= Len(s)
           /\ s[j] = " "
           /\ \A k \in (j + 1)..(j + 4) : s[k] \in Digit
        THEN j + 5 ELSE 0

\* re.split(r'\n\n+', s)
RECURSIVE SplitBlocks(_)
SplitBlocks(s) ==
    LET i == Find(<<NL, NL>>, s, 1)
    IN  IF i = 0 THEN <<s>>
        ELSE <<SubSeq(s, 1, i - 1)>>
             \o SplitBlocks(SubSeq(s, RunEnd(s, i, {NL}), Len(s)))

\* [line.strip() for line in lines if line.strip()]
RECURSIVE StripLines(_)
StripLines(lines) ==
    IF lines = <<>> THEN <<>>
    ELSE (IF Strip(Head(lines)) # <<>> THEN <<Strip(Head(lines))>> ELSE <<>>)
         \o StripLines(Tail(lines))

\* lines 119-121
RECURSIVE star_bullets(_)
star_bullets(lines) ==
    IF lines = <<>> THEN <<>>
    ELSE (IF StartsWith(Strip(Head(lines)), <<"*">>)
          THEN << Strip(StripChars(Head(lines), {"*", " "})) >>
          ELSE <<>>) \o star_bullets(Tail(lines))

\* lines 99-128: the jobs of the blocks of the HR section
RECURSIVE HrJobs(_)
HrJobs(blocks) ==
    IF blocks = <<>> THEN <<>>
    ELSE
    LET lines      == Split(Strip(Head(blocks)), NL)
        first_line == lines[1]
        dates      == Strip(SubSeq(first_line, 1,
                                   FirstIn(first_line,
                                           DateAt(first_line, 1), Upper) - 1))
    IN  (IF /\ Strip(Head(blocks)) # <<>>
            /\ \E i \in 1..Len(first_line) : DateAt(first_line, i) # 0
            /\ DateAt(first_line, 1) # 0
         THEN << [title   |-> IF Len(lines) > 1 THEN Strip(lines[2]) ELSE <<>>,
                  company |-> Strip(SubSeq(first_line, Len(dates) + 1,
                                           Len(first_line))),
                  dates   |-> dates,
                  bullets |-> star_bullets(SubSeq(lines, 3, Len(lines)))] >>
         ELSE <<>>) \o HrJobs(Tail(blocks))

\* the first index, at least one character after g0, where lit occurs
LazyUntil(s, g0, lit) == Find(lit, s, g0 + 1)

\* lines 93-128
ParseHrSection(content) ==
    LET i  == Find(L_HR_HEADING, content, 1)
        g0 == i + Len(L_HR_HEADING)
        p  == LazyUntil(content, g0, L_SCHOOL_NAME)
    IN  IF i = 0 \/ p = 0 THEN <<>>
        ELSE HrJobs(SplitBlocks(Strip(SubSeq(content, g0, p - 1))))

\* (?:\s*-\s*[A-Z][a-z]+ \d{4}) from index e1: the index after it, 0 if none
RangeEnd(s, e1) ==
    LET d == RunEnd(s, e1, WS)
    IN  IF d <= Len(s) /\ s[d] = "-"
        THEN DateAt(s, RunEnd(s, d + 1, WS))
        ELSE 0

\* \s+(.+) can match from index e to the end of the line
RestAt(s, e) == e >= 1 /\ e + 1 <= Len(s) /\ s[e] \in WS

\* start of (.+) after a greedy \s+ that starts at e
RestStart(s, e) ==
    IF RunEnd(s, e, WS) <= Len(s) THEN RunEnd(s, e, WS) ELSE Len(s)

\* line 145: the end of group 1 of the date pattern on a line, 0 if no
\* match; the optional range is taken when the rest still matches after it
SchoolDateEnd(s) ==
    LET e1 == DateAt(s, 1)
        e2 == IF e1 = 0 THEN 0 ELSE RangeEnd(s, e1)
    IN  IF e1 = 0 THEN 0
        ELSE IF e2 # 0 /\ RestAt(s, e2) THEN e2
        ELSE IF RestAt(s, e1) THEN e1
        ELSE 0

\* re.sub(r'\s+', ' ', s)
RECURSIVE NormalizeWs(_)
NormalizeWs(s) ==
    IF s = <<>> THEN <<>>
    ELSE IF Head(s) \in WS
         THEN <<" ">> \o NormalizeWs(SubSeq(s, RunEnd(s, 1, WS), Len(s)))
         ELSE <<Head(s)>> \o NormalizeWs(Tail(s))

\* str.upper() on one character
ToUpper(c) ==
    CASE c = "a" -> "A" [] c = "b" -> "B" [] c = "c" -> "C" [] c = "d" -> "D"
      [] c = "e" -> "E" [] c = "f" -> "F" [] c = "g" -> "G" [] c = "h" -> "H"
      [] c = "i" -> "I" [] c = "j" -> "J" [] c = "k" -> "K" [] c = "l" -> "L"
      [] c = "m" -> "M" [] c = "n" -> "N" [] c = "o" -> "O" [] c = "p" -> "P"
      [] c = "q" -> "Q" [] c = "r" -> "R" [] c = "s" -> "S" [] c = "t" -> "T"
      [] c = "u" -> "U" [] c = "v" -> "V" [] c = "w" -> "W" [] c = "x" -> "X"
      [] c = "y" -> "Y" [] c = "z" -> "Z" [] OTHER -> c

upper(s) == [k \in 1..Len(s) |-> ToUpper(s[k])]

\* lines 143-171: the job of one block, from its first line with a date
SchoolJob(lines) ==
    LET H == {i \in 1..Len(lines) : SchoolDateEnd(lines[i]) # 0}
    IN  IF H = {} THEN <<>>
        ELSE
        LET i    == Min(H)
            line == lines[i]
            e    == SchoolDateEnd(line)
            dates == NormalizeWs(Strip(SubSeq(line, 1, e - 1)))
            company_part == Strip(SubSeq(line, RestStart(line, e), Len(line)))
        IN  IF i + 1 <= Len(lines)
            THEN << [title |-> lines[i + 1], company |-> company_part,
                     dates |-> dates, bullets |-> <<>>] >>
            ELSE IF Contains(L_MATERNITY, upper(company_part))
            THEN << [title |-> company_part, company |-> <<>>,
                     dates |-> dates, bullets |-> <<>>] >>
            ELSE << [title |-> L_School_Counselor, company |-> company_part,
                     dates |-> dates, bullets |-> <<>>] >>

\* lines 137-171
RECURSIVE SchoolJobs(_)
SchoolJobs(blocks) ==
    IF blocks = <<>> THEN <<>>
    ELSE (IF Strip(Head(blocks)) # <<>>
          THEN SchoolJob(StripLines(Split(Strip(Head(blocks)), NL)))
          ELSE <<>>) \o SchoolJobs(Tail(blocks))

\* lines 131-171
ParseSchoolSection(content) ==
    LET i  == Find(L_SCHOOL_HEADING, content, 1)
        g0 == i + Len(L_SCHOOL_HEADING)
        p  == LazyUntil(content, g0, L_Education)
    IN  IF i = 0 \/ p = 0 THEN <<>>
        ELSE SchoolJobs(SplitBlocks(Strip(SubSeq(content, g0, p - 1))))

\* lines 60-170
ParseJobs(content) ==
    IF Contains(L_JOB_TITLE_C, content)
    THEN ParseLabeledJobs(content)
    ELSE ParseHrSection(content) \o ParseSchoolSection(content)

\* Education\s*\n\n from index i: the set of indices where group 1 can start
EduStarts(s, i) ==
    {g0 \in (i + Len(L_Education) + 2)..Len(s) :
        /\ s[g0 - 1] = NL
        /\ s[g0 - 2] = NL
        /\ \A k \in (i + Len(L_Education))..(g0 - 3) : s[k] \in WS}

\* lines 237-261: the entries of the blocks of the positional education
RECURSIVE EduBlocks(_)
EduBlocks(blocks) ==
    IF blocks = <<>> THEN <<>>
    ELSE
    LET lines == StripLines(Split(Head(blocks), NL))
        e     == DateAt(lines[1], 1)
    IN  (IF /\ Strip(Head(blocks)) # <<>>
            /\ lines # <<>>
            /\ e # 0
            /\ RestAt(lines[1], e)
         THEN << [degree  |-> IF Len(lines) > 1 THEN lines[2] ELSE <<>>,
                  school  |-> SubSeq(lines[1], RestStart(lines[1], e),
                                     Len(lines[1])),
                  date    |-> SubSeq(lines[1], 1, e - 1),
                  details |-> IF Len(lines) > 2 THEN lines[3] ELSE None] >>
         ELSE <<>>) \o EduBlocks(Tail(blocks))

\* lines 231-261
ParsePositionalEducation(content) ==
    LET H == {i \in 1..Len(content) :
                 MatchAt(L_Education, content, i) /\ EduStarts(content, i) # {}}
    IN  IF H = {} THEN <<>>
        ELSE LET g0 == Max(EduStarts(content, Min(H)))
                 p  == Min({q \in (g0 + 1)..(Len(content) + 1) :
                               AtDollar(content, q)})
             IN  EduBlocks(SplitBlocks(Strip(SubSeq(content, g0, p - 1))))

\* lines 189-261
ParseEducation(content) ==
    LET edu_match == SectionSearch(L_EDUCATION_NL2, content, "header_or_end")
    IN  IF edu_match.found
        THEN EduScan(Split(Strip(edu_match.group), NL), 0, <<>>)
        ELSE ParsePositionalEducation(content)

\* ------------------------------------------------------------------------
\* parse_resume_data
\* ------------------------------------------------------------------------

\* the record before parse_resume_data has returned one
NoData ==
    [name |-> <<>>, phone |-> <<>>, email |-> <<>>, location |-> <<>>,
     summary |-> <<>>, transition |-> <<>>, jobs |-> <<>>,
     competencies |-> <<>>, education |-> <<>>, certifications |-> <<>>,
     personal |-> <<>>]

\* lines 20-26 when a missing label leaves its field empty instead of raising
ParseRaises_Never(content) == FALSE

\* lines 20-26 and 58 when .group is also called on a missing transition match
ParseRaises_Transition(content) ==
    ParseContact(content).raised \/ SearchField(L_TRANSITION_NL, content) = 0

\* lines 20-26: the read of .group on None raises
ParseRaises(content) == ParseContact(content).raised

\* lines 17-300: the record returned when nothing raises
parse_resume_data(content) ==
    LET contact == ParseContact(content)
    IN  [name           |-> contact.name,
         phone          |-> contact.phone,
         email          |-> contact.email,
         location       |-> contact.location,
         summary        |-> ParseSummary(content),
         transition     |-> ParseTransition(content),
         jobs           |-> ParseJobs(content),
         competencies   |-> ParseCompetencies(content),
         education      |-> ParseEducation(content),
         certifications |-> ParseCertifications(content),
         personal       |-> ParsePersonal(content)]

\* ------------------------------------------------------------------------
\* generate_html: the pieces of markup.  An output is the sequence of its
\* characters; a fixed fragment of the template is one token.
\* ------------------------------------------------------------------------

\* bullet.rsplit(':', 1): a split at the last colon
ColonParts_Last(bullet) ==
    LET e == Max({k \in 1..Len(bullet) : bullet[k] = ":"})
    IN  << SubSeq(bullet, 1, e - 1), SubSeq(bullet, e + 1, Len(bullet)) >>

\* bullet.split(':', 1)
ColonParts(bullet) ==
    LET e == Find(<<":">>, bullet, 1)
    IN  << SubSeq(bullet, 1, e - 1), SubSeq(bullet, e + 1, Len(bullet)) >>

\* lines 321-326 and 348-353: one list item
bullet_item(bullet) ==
    IF Contains(<<":">>, bullet)
    THEN <<"<li>", "<strong>">> \o ColonParts(bullet)[1] \o <<":", "</strong>">>
         \o ColonParts(bullet)[2] \o <<"</li>">>
    ELSE <<"<li>">> \o bullet \o <<"</li>">>

\* lines 318-326 and 345-353: the loop over the bullets of a job
RECURSIVE bullets_html(_)
bullets_html(bullets) ==
    IF bullets = <<>> THEN <<>>
    ELSE bullet_item(Head(bullets)) \o bullets_html(Tail(bullets))

\* the header of a job block: title, company, dates
job_header(job) ==
    <<"<div class=job>", "<span class=job-title>">> \o job.title
    \o <<"</span>", "<span class=company>">> \o job.company
    \o <<"</span>", "<span class=date>">> \o job.dates
    \o <<"</span>", "</div job-header>">>

\* lines 328-340 and 355-367: a block with a list
block_with_list(job) ==
    job_header(job) \o <<"<ul>">> \o bullets_html(job.bullets)
    \o <<"</ul>", "</div job>">>

\* lines 369-379: a header-only block
block_without_list(job) == job_header(job) \o <<"</div job>">>

\* lines 317-340: the block of a job of austria_jobs
austria_block(job) == block_with_list(job)

\* lines 343-379: the block of a job of california_jobs
california_block(job) ==
    IF job.bullets # <<>> THEN block_with_list(job)
    ELSE block_without_list(job)

\* line 311 with startswith in place of the substring test
in_austria_prefix(job) == StartsWith(job.company, L_Austria)

\* line 311
in_austria(job) == Contains(L_Austria, job.company)

\* lines 382-385
RECURSIVE comp_html(_)
comp_html(competencies) ==
    IF competencies = <<>> THEN <<>>
    ELSE <<"<div>", BulletGlyph, " ">> \o Head(competencies) \o <<"</div>">>
         \o comp_html(Tail(competencies))

\* lines 387-400
RECURSIVE edu_html(_)
edu_html(education) ==
    IF education = <<>> THEN <<>>
    ELSE LET edu == Head(education)
         IN  <<"<div class=education-item>", "<div class=degree>">>
             \o edu.degree \o <<"</div>", "<div class=school>">>
             \o edu.school \o <<"</div>", "<div class=cert-date>">>
             \o edu.date \o <<"</div>">>
             \o (IF edu.details # None /\ edu.details # <<>>
                 THEN <<"<div style=details>">> \o edu.details \o <<"</div>">>
                 ELSE <<>>)
             \o <<"</div education-item>">> \o edu_html(Tail(education))

\* lines 402-411
RECURSIVE cert_html(_)
cert_html(certifications) ==
    IF certifications = <<>> THEN <<>>
    ELSE LET cert == Head(certifications)
         IN  <<"<div class=certification-item>", "<div class=cert-name>">>
             \o cert.name \o <<"</div>", "<div class=cert-org>">>
             \o cert.organization
             \o <<"</div>", "<div class=cert-date>", "Issued ">>
             \o cert.date \o <<"</div>", "</div certification-item>">>
             \o cert_html(Tail(certifications))

\* lines 413-923 with a section for the certifications and the transition
\* note
html_template_certs(d, jobs, comps, edus) ==
    <<"<!DOCTYPE html>", "<title>">> \o d.name
    \o <<" - Resume</title>", "<style>", "<body>", "<img alt=">> \o d.name
    \o <<"<h1>">> \o d.name
    \o <<"</h1>", "<span>pin ">> \o d.location
    \o <<"</span>", "<span>mail ">> \o d.email
    \o <<"</span>", "<span>phone ">> \o d.phone
    \o <<"</span>", "<section class=summary>", "<p>">> \o d.summary
    \o <<"</p>", "<p>">> \o d.transition
    \o <<"</p>", "</section>", "<h2>Professional Experience</h2>">> \o jobs
    \o <<"</section>", "<h2>Core Competencies</h2>">> \o comps
    \o <<"</section>", "<h2>Education</h2>">> \o edus
    \o <<"</section>", "<h2>Licenses</h2>">> \o cert_html(d.certifications)
    \o <<"</section>", "</body>", "</html>">>

\* lines 413-923: the template around the generated pieces
html_template(d, jobs, comps, edus) ==
    <<"<!DOCTYPE html>", "<title>">> \o d.name
    \o <<" - Resume</title>", "<style>", "<body>", "<img alt=">> \o d.name
    \o <<"<h1>">> \o d.name
    \o <<"</h1>", "<span>pin ">> \o d.location
    \o <<"</span>", "<span>mail ">> \o d.email
    \o <<"</span>", "<span>phone ">> \o d.phone
    \o <<"</span>", "<section class=summary>", "<p>">> \o d.summary
    \o <<"</p>", "</section>", "<h2>Professional Experience</h2>">> \o jobs
    \o <<"</section>", "<h2>Core Competencies</h2>">> \o comps
    \o <<"</section>", "<h2>Education</h2>">> \o edus
    \o <<"</section>", "</body>", "</html>">>

\* values of the certifications field: none, one entry, two entries
CertVariants ==
    { <<>>,
      << [name |-> <<"C", "e">>, organization |-> <<"O", "r", "g">>,
          date |-> <<"2">>] >>,
      << [name |-> <<"X">>, organization |-> <<>>, date |-> <<>>],
         [name |-> <<"C", "e">>, organization |-> <<"O", "r", "g">>,
          date |-> <<"2">>] >> }

\* values of the transition and personal fields
TextVariants == { <<>>, <<"t", "r">>, <<"<", "p", ">", "z">> }

\* ------------------------------------------------------------------------
\* State
\* ------------------------------------------------------------------------

VARIABLES
    pc,          \* position of main (or of the caller of generate_html)
    file,        \* resume.txt: whether it can be read, and its text
    data,        \* the record returned by parse_resume_data
    gh,          \* generate_html: its position and its local variables
    html,        \* the value returned by generate_html
    first_html,  \* the value returned by an earlier call of generate_html
    index_html,  \* index.html: whether it was written, and its text
    invoked,     \* generate_pdf: the outcomes of the candidates run so far
    stdout,      \* the messages printed
    status,      \* the status main returned; -1 while it runs
    scan         \* a line scanner of parse_resume_data: its lines, its
                 \* index i and the records appended so far

vars == <<pc, file, data, gh, html, first_html, index_html, invoked, stdout,
          status, scan>>

\* len(methods), lines 930-937
NumCandidates == 4

\* what subprocess.run can do for one candidate: raise FileNotFoundError,
\* return a non-zero or a zero returncode, or raise another OSError (a
\* candidate that exists and cannot be executed)
Outcomes == {"missing", "nonzero", "zero", "oserror"}

GhIdle ==
    [pc |-> "idle", n |-> 0, jobs_html |-> <<>>, austria_jobs |-> <<>>,
     california_jobs |-> <<>>, cert_html |-> <<>>]

NoFile == [written |-> FALSE, text |-> <<>>]

ScanIdle ==
    [scanner |-> "none", pc |-> "idle", lines |-> <<>>, i |-> 0,
     records |-> <<>>]

\* ------------------------------------------------------------------------
\* generate_html, statement by statement
\* ------------------------------------------------------------------------

\* lines 306-308 with accumulators that outlive the call
GH_Enter_NoReset ==
    /\ gh.pc = "enter"
    /\ gh' = [gh EXCEPT !.pc = "partition", !.n = 0]
    /\ UNCHANGED <<pc, file, data, html, first_html, index_html, invoked,
                   stdout, status, scan>>

\* lines 306-308
GH_Enter ==
    /\ gh.pc = "enter"
    /\ gh' = [gh EXCEPT !.pc = "partition", !.n = 0, !.jobs_html = <<>>,
                        !.austria_jobs = <<>>, !.california_jobs = <<>>,
                        !.cert_html = <<>>]
    /\ UNCHANGED <<pc, file, data, html, first_html, index_html, invoked,
                   stdout, status, scan>>

\* lines 310-314: one iteration of the partition loop, or its exit
GH_Partition ==
    /\ gh.pc = "partition"
    /\ \/ /\ gh.n < Len(data.jobs)
          /\ LET job == data.jobs[gh.n + 1]
             IN  IF in_austria(job)
                 THEN gh' = [gh EXCEPT !.n = @ + 1,
                                       !.austria_jobs = Append(@, job)]
                 ELSE gh' = [gh EXCEPT !.n = @ + 1,
                                       !.california_jobs = Append(@, job)]
       \/ /\ gh.n >= Len(data.jobs)
          /\ gh' = [gh EXCEPT !.pc = "austria", !.n = 0]
    /\ UNCHANGED <<pc, file, data, html, first_html, index_html, invoked,
                   stdout, status, scan>>

\* lines 317-340: one iteration of the loop over austria_jobs, or its exit
GH_Austria ==
    /\ gh.pc = "austria"
    /\ \/ /\ gh.n < Len(gh.austria_jobs)
          /\ gh' = [gh EXCEPT
                      !.n = @ + 1,
                      !.jobs_html = @ \o austria_block(gh.austria_jobs[gh.n + 1])]
       \/ /\ gh.n >= Len(gh.austria_jobs)
          /\ gh' = [gh EXCEPT !.pc = "california", !.n = 0]
    /\ UNCHANGED <<pc, file, data, html, first_html, index_html, invoked,
                   stdout, status, scan>>

\* lines 343-379: one iteration of the loop over california_jobs, or its exit
GH_California ==
    /\ gh.pc = "california"
    /\ \/ /\ gh.n < Len(gh.california_jobs)
          /\ gh' = [gh EXCEPT
                      !.n = @ + 1,
                      !.jobs_html =
                          @ \o california_block(gh.california_jobs[gh.n + 1])]
       \/ /\ gh.n >= Len(gh.california_jobs)
          /\ gh' = [gh EXCEPT !.pc = "template", !.n = 0]
    /\ UNCHANGED <<pc, file, data, html, first_html, index_html, invoked,
                   stdout, status, scan>>

\* lines 382-925: the remaining pieces, the template, the return
GH_Template ==
    /\ gh.pc = "template"
    /\ gh' = [gh EXCEPT !.pc = "returned",
                        !.cert_html = cert_html(data.certifications)]
    /\ html' = html_template(data, gh.jobs_html,
                             comp_html(data.competencies),
                             edu_html(data.education))
    /\ UNCHANGED <<pc, file, data, first_html, index_html, invoked, stdout,
                   status, scan>>

\* ------------------------------------------------------------------------
\* main and generate_pdf
\* ------------------------------------------------------------------------

\* lines 959-963 with 12-300: read and parse resume.txt; an unreadable file
\* and a failed contact capture raise, and main's handler (977-979) prints
\* the error and returns 1; otherwise generate_html is called
Parse ==
    /\ pc = "start"
    /\ \/ /\ ~file.readable
          /\ stdout' = stdout \o <<"Reading resume data...", "Error">>
          /\ status' = 1
          /\ pc' = "done"
          /\ UNCHANGED <<data, gh>>
       \/ /\ file.readable
          /\ ParseRaises(file.content)
          /\ stdout' = stdout \o <<"Reading resume data...", "Error">>
          /\ status' = 1
          /\ pc' = "done"
          /\ UNCHANGED <<data, gh>>
       \/ /\ file.readable
          /\ ~ParseRaises(file.content)
          /\ data' = parse_resume_data(file.content)
          /\ stdout' = stdout \o <<"Reading resume data...", "Generating HTML...">>
          /\ gh' = [gh EXCEPT !.pc = "enter"]
          /\ pc' = "render"
          /\ UNCHANGED status
    /\ UNCHANGED <<file, html, first_html, index_html, invoked, scan>>

\* lines 965-971 written before generate_html has returned
Write_Early ==
    /\ pc = "render"
    /\ \/ /\ index_html' = [written |-> TRUE, text |-> html]
          /\ stdout' = stdout \o <<"Writing index.html...", "HTML generated",
                                   "Generating PDF...">>
          /\ pc' = "pdf"
          /\ UNCHANGED status
       \/ /\ stdout' = stdout \o <<"Writing index.html...", "Error">>
          /\ status' = 1
          /\ pc' = "done"
          /\ UNCHANGED index_html
       \/ /\ index_html' = [written |-> FALSE,
                            text |-> SubSeq(html, 1, Len(html) \div 2)]
          /\ stdout' = stdout \o <<"Writing index.html...", "Error">>
          /\ status' = 1
          /\ pc' = "done"
    /\ UNCHANGED <<file, data, gh, html, first_html, invoked, scan>>

\* lines 965-971: write index.html and close it.  open may raise an OSError,
\* which leaves no file; write may raise one, which leaves a part of the text
Write ==
    /\ pc = "render"
    /\ gh.pc = "returned"
    /\ \/ /\ index_html' = [written |-> TRUE, text |-> html]
          /\ stdout' = stdout \o <<"Writing index.html...", "HTML generated",
                                   "Generating PDF...">>
          /\ pc' = "pdf"
          /\ UNCHANGED status
       \/ /\ stdout' = stdout \o <<"Writing index.html...", "Error">>
          /\ status' = 1
          /\ pc' = "done"
          /\ UNCHANGED index_html
       \/ /\ index_html' = [written |-> FALSE,
                            text |-> SubSeq(html, 1, Len(html) \div 2)]
          /\ stdout' = stdout \o <<"Writing index.html...", "Error">>
          /\ status' = 1
          /\ pc' = "done"
    /\ UNCHANGED <<file, data, gh, html, first_html, invoked, scan>>

\* lines 939-946 with a loop that goes on after a candidate returned 0
PdfTry_NoReturn ==
    /\ pc = "pdf"
    /\ Len(invoked) < NumCandidates
    /\ \E outcome \in Outcomes :
          /\ invoked' = Append(invoked, outcome)
          /\ CASE outcome = "zero" ->
                    /\ stdout' = stdout \o <<"PDF generated">>
                    /\ UNCHANGED <<status, pc>>
               [] outcome = "oserror" ->
                    /\ stdout' = stdout \o <<"Error">>
                    /\ status' = 1
                    /\ pc' = "done"
               [] OTHER ->
                    /\ UNCHANGED <<stdout, status, pc>>
    /\ UNCHANGED <<file, data, gh, html, first_html, index_html, scan>>

\* lines 939-946 with 972-981: run the next candidate
PdfTry ==
    /\ pc = "pdf"
    /\ Len(invoked) < NumCandidates
    /\ \E outcome \in Outcomes :
          /\ invoked' = Append(invoked, outcome)
          /\ CASE outcome = "zero" ->
                    /\ stdout' = stdout \o <<"PDF generated", "complete">>
                    /\ status' = 0
                    /\ pc' = "done"
               [] outcome = "oserror" ->
                    /\ stdout' = stdout \o <<"Error">>
                    /\ status' = 1
                    /\ pc' = "done"
               [] OTHER ->
                    /\ UNCHANGED <<stdout, status, pc>>
    /\ UNCHANGED <<file, data, gh, html, first_html, index_html, scan>>

\* lines 948-954 with 972-981 when main turns the False of generate_pdf into
\* a failing status
PdfGiveUp_Fatal ==
    /\ pc = "pdf"
    /\ Len(invoked) >= NumCandidates
    /\ stdout' = stdout \o <<"Could not generate PDF automatically", "Error">>
    /\ status' = 1
    /\ pc' = "done"
    /\ UNCHANGED <<file, data, gh, html, first_html, index_html, invoked, scan>>

\* lines 948-954 with 972-981: every candidate was run, none returned 0
PdfGiveUp ==
    /\ pc = "pdf"
    /\ Len(invoked) >= NumCandidates
    /\ stdout' = stdout \o <<"Could not generate PDF automatically",
                             "complete">>
    /\ status' = 0
    /\ pc' = "done"
    /\ UNCHANGED <<file, data, gh, html, first_html, index_html, invoked, scan>>

\* a caller that renders the same record a second time
SecondCall ==
    /\ pc = "call1"
    /\ gh.pc = "returned"
    /\ first_html' = html
    /\ gh' = [gh EXCEPT !.pc = "enter"]
    /\ pc' = "call2"
    /\ UNCHANGED <<file, data, html, index_html, invoked, stdout, status, scan>>

\* a caller that renders a second record, which differs from the first in
\* its certifications, transition and personal fields at most
VariedCall ==
    /\ pc = "call1"
    /\ gh.pc = "returned"
    /\ first_html' = html
    /\ \E c \in CertVariants, t \in TextVariants, p \in TextVariants :
           data' = [data EXCEPT !.certifications = c, !.transition = t,
                                !.personal = p]
    /\ gh' = [gh EXCEPT !.pc = "enter"]
    /\ pc' = "call2v"
    /\ UNCHANGED <<file, html, index_html, invoked, stdout, status, scan>>

\* ------------------------------------------------------------------------
\* The line scanners of parse_resume_data, iteration by iteration
\* ------------------------------------------------------------------------

\* lines 197-228: 'while i < len(lines)' of the education section: one
\* iteration, or the exit of the loop
EduLoop ==
    /\ scan.scanner = "edu"
    /\ scan.pc = "loop"
    /\ \/ /\ scan.i < Len(scan.lines)
          /\ LET it == EduIter(scan.lines, scan.i)
             IN  scan' = [scan EXCEPT
                            !.i = it.i,
                            !.records = IF it.appends
                                        THEN Append(@, it.record) ELSE @]
       \/ /\ scan.i >= Len(scan.lines)
          /\ scan' = [scan EXCEPT !.pc = "done"]
    /\ UNCHANGED <<pc, file, data, gh, html, first_html, index_html, invoked,
                   stdout, status>>

\* lines 270-293: 'while i < len(lines)' of the certifications section: one
\* iteration, or the exit of the loop
CertLoop ==
    /\ scan.scanner = "cert"
    /\ scan.pc = "loop"
    /\ \/ /\ scan.i < Len(scan.lines)
          /\ LET it == CertIter(scan.lines, scan.i)
             IN  scan' = [scan EXCEPT
                            !.i = it.i,
                            !.records = IF it.appends
                                        THEN Append(@, it.record) ELSE @]
       \/ /\ scan.i >= Len(scan.lines)
          /\ scan' = [scan EXCEPT !.pc = "done"]
    /\ UNCHANGED <<pc, file, data, gh, html, first_html, index_html, invoked,
                   stdout, status>>

\* ------------------------------------------------------------------------
\* The inputs: the texts of resume.txt and the records rendered
\* ------------------------------------------------------------------------

\* a complete labeled contact block
GoodContact ==
    <<"N", "A", "M", "E", ":", " ", "J", "o", NL, "P", "H", "O", "N", "E",
      ":", " ", "5", NL, "E", "M", "A", "I", "L", ":", " ", "e", NL, "L",
      "O", "C", "A", "T", "I", "O", "N", ":", " ", "W", NL>>

\* each contact line: absent, plain, with padding around the value, or (for
\* NAME) the bare label with no value
NameLines ==
    { <<>>,
      <<"N", "A", "M", "E", ":", " ", "J", "o", NL>>,
      <<"N", "A", "M", "E", ":", " ", " ", "J", "o", " ", NL>>,
      <<"N", "A", "M", "E", ":", NL>> }

PhoneLines ==
    { <<>>,
      <<"P", "H", "O", "N", "E", ":", " ", "5", NL>>,
      <<"P", "H", "O", "N", "E", ":", " ", "5", "\t", NL>> }

EmailLines ==
    { <<>>,
      <<"E", "M", "A", "I", "L", ":", " ", "e", NL>>,
      <<"E", "M", "A", "I", "L", ":", " ", " ", "e", NL>> }

LocationLines ==
    { <<>>,
      <<"L", "O", "C", "A", "T", "I", "O", "N", ":", " ", "W", NL>>,
      <<"L", "O", "C", "A", "T", "I", "O", "N", ":", " ", "W", " ">> }

\* texts made of contact lines only
ContactDocs ==
    { n \o p \o e \o l :
        n \in NameLines, p \in PhoneLines, e \in EmailLines, l \in LocationLines }

\* first lines of the positional layout: a full header, a header with one
\* delimiter, no header
PosHeaders ==
    { <<"J", "o", " ", "D", "o", " ", " ", "W", "i", "e", "n", " ", Star, " ",
  "5", " ", Star, " ", "e", NL>>,
      <<"J", "o", " ", Star, " ", "5", NL>>,
      <<>> }

\* the optional sections of the labeled layout

SecSummary ==
    <<"S", "U", "M", "M", "A", "R", "Y", ":", NL, "s", "u", "m", NL>>

SecTransition ==
    <<"T", "R", "A", "N", "S", "I", "T", "I", "O", "N", " ", "N", "O", "T",
      "E", ":", NL, "t", "r", NL>>

SecJob ==
    <<"J", "O", "B", " ", "T", "I", "T", "L", "E", ":", " ", "T", NL, "C",
      "O", "M", "P", "A", "N", "Y", ":", " ", "C", " ", "A", "u", "s", "t",
      "r", "i", "a", NL, "D", "A", "T", "E", "S", ":", " ", "D", NL, NL>>

SecCompetencies ==
    <<"C", "O", "R", "E", " ", "C", "O", "M", "P", "E", "T", "E", "N", "C",
      "I", "E", "S", ":", NL, BulletGlyph, " ", "k", NL, BulletGlyph, " ",
      "m", NL>>

SecEducation ==
    <<"E", "D", "U", "C", "A", "T", "I", "O", "N", ":", NL, NL, "B", "A",
      NL, "U", "n", "i", NL, "G", "r", "a", "d", "u", "a", "t", "e", "d",
      " ", "1", NL>>

SecCertifications ==
    <<"L", "I", "C", "E", "N", "S", "E", "S", " ", "&", " ", "C", "E", "R",
      "T", "I", "F", "I", "C", "A", "T", "I", "O", "N", "S", ":", NL, NL,
      "C", "e", NL, "O", "r", "g", NL, "I", "s", "s", "u", "e", "d", " ",
      "2", NL>>

SecPersonal ==
    <<"P", "E", "R", "S", "O", "N", "A", "L", ":", NL, "p", NL>>

\* a contact block followed by any subset of the optional sections
SectionDocs ==
    { c \o s1 \o s2 \o s3 \o s4 \o s5 \o s6 \o s7 :
        c \in {GoodContact} \cup PosHeaders,
        s1 \in {<<>>, SecSummary}, s2 \in {<<>>, SecTransition},
        s3 \in {<<>>, SecJob}, s4 \in {<<>>, SecCompetencies},
        s5 \in {<<>>, SecEducation}, s6 \in {<<>>, SecCertifications},
        s7 \in {<<>>, SecPersonal} }

\* a text in the positional layout with all its sections
PositionalDoc ==
    <<"J", "o", " ", "D", "o", " ", " ", "W", " ", Star, " ", "5", " ",
      Star, " ", "e", NL, "E", "x", "e", "c", "u", "t", "i", "v", "e", " ",
      "S", "u", "m", "m", "a", "r", "y", NL, "h", "i", NL, NL, "H", "u",
      "m", "a", "n", " ", "R", "e", "s", "o", "u", "r", "c", "e", "s", " ",
      "E", "x", "p", "e", "r", "i", "e", "n", "c", "e", NL, NL, "J", "a",
      "n", " ", "2", "0", "2", "0", " ", "-", " ", "n", "o", "w", " ", "A",
      "c", "m", "e", " ", "A", "u", "s", "t", "r", "i", "a", NL, "L", "e",
      "a", "d", NL, "*", " ", "d", "i", "d", ":", " ", "x", NL, NL, "F",
      "e", "b", " ", "2", "0", "1", "9", " ", "b", "e", "t", "a", NL, NL,
      "S", "c", "h", "o", "o", "l", " ", "C", "o", "u", "n", "s", "e", "l",
      "i", "n", "g", " ", "E", "x", "p", "e", "r", "i", "e", "n", "c", "e",
      NL, NL, "A", "u", "g", " ", "2", "0", "1", "0", " ", "-", " ", "J",
      "u", "n", " ", "2", "0", "1", "5", " ", "S", "c", "h", NL, "C", "o",
      "u", "n", "s", "e", "l", "o", "r", NL, NL, "S", "e", "p", " ", "2",
      "0", "0", "9", " ", "M", "a", "t", "e", "r", "n", "i", "t", "y", NL,
      NL, "S", "e", "p", " ", "2", "0", "0", "8", " ", "O", "t", "h", "e",
      "r", NL, NL, "E", "d", "u", "c", "a", "t", "i", "o", "n", NL, NL,
      "M", "a", "y", " ", "2", "0", "0", "5", " ", "U", "n", "i", NL, "M",
      "A", NL, "P", "P", "S", NL, NL, "J", "u", "n", " ", "2", "0", "0",
      "1", " ", "C", "o", "l", NL>>

\* a labeled text with jobs of both buckets, with and without bullets
MixedJobsDoc ==
    <<"N", "A", "M", "E", ":", " ", "J", "o", NL, "P", "H", "O", "N", "E",
      ":", " ", "5", NL, "E", "M", "A", "I", "L", ":", " ", "e", NL, "L",
      "O", "C", "A", "T", "I", "O", "N", ":", " ", "W", NL, "J", "O", "B",
      " ", "T", "I", "T", "L", "E", ":", " ", "T", NL, "C", "O", "M", "P",
      "A", "N", "Y", ":", " ", "C", NL, "D", "A", "T", "E", "S", ":", " ",
      "D", NL, "-", " ", "a", ":", " ", "b", NL, NL, "J", "O", "B", " ",
      "T", "I", "T", "L", "E", ":", " ", "U", NL, "C", "O", "M", "P", "A",
      "N", "Y", ":", " ", "K", " ", "A", "u", "s", "t", "r", "i", "a", NL,
      "D", "A", "T", "E", "S", ":", " ", "D", NL, "-", " ", "c", NL, NL,
      "J", "O", "B", " ", "T", "I", "T", "L", "E", ":", " ", "V", NL, "C",
      "O", "M", "P", "A", "N", "Y", ":", " ", "C", NL, "D", "A", "T", "E",
      "S", ":", " ", "D", NL, NL, "J", "O", "B", " ", "T", "I", "T", "L",
      "E", ":", " ", "W", NL, "C", "O", "M", "P", "A", "N", "Y", ":", " ",
      "A", "u", "s", "t", "r", "i", "a", NL, "D", "A", "T", "E", "S", ":",
      " ", "D", NL>>

\* the job blocks: a title and a company, plain or padded, and what follows
\* the DATES line
JobTitles == { <<"T">>, <<"T", " ">> }

JobCompanies == { <<"C">>, <<"K">> }

JobTails ==
    { <<NL, NL>>,
      <<NL, "-", " ", "b", NL, NL>>,
      <<NL, "-", " ", "a", " ", "-", NL, "-", " ", "-", "b", NL, NL>>,
      <<NL, "-", " ", " ", "c", " ", NL, "-", "x", NL, "-", " ", "d", NL, NL>> }

JobBlocks ==
    { L_JOB_TITLE_SP \o t \o L_NL_COMPANY \o c \o L_NL_DATES \o <<"D">> \o x :
        t \in JobTitles, c \in JobCompanies, x \in JobTails }

\* the most job blocks in a text
MaxJobBlocks == 2

SeqsUpTo(S, n) == UNION { [1..k -> S] : k \in 0..n }

\* a complete contact block followed by job blocks
JobDocs == { GoodContact \o Concat(bs) : bs \in SeqsUpTo(JobBlocks, MaxJobBlocks) }

Readable(docs) == { [readable |-> TRUE, content |-> d] : d \in docs }

Unreadable == [readable |-> FALSE, content |-> <<>>]

\* the files main is run on
MainFiles ==
    Readable(ContactDocs \cup SectionDocs \cup {PositionalDoc, MixedJobsDoc})
    \cup {Unreadable}

\* the files parse_resume_data is applied to
ParseFiles == MainFiles \cup Readable(JobDocs)

\* the jobs handed to generate_html: companies that hold 'Austria' inside or
\* at the start, and one that misses its last letter; no bullets, or one
\* bullet with colons and one without
RenderCompanies ==
    { <<"X", " ", "A", "u", "s", "t", "r", "i", "a">>,
      <<"A", "u", "s", "t", "r", "i", "a">>,
      <<"A", "u", "s", "t", "r", "i">> }

RenderBullets == { <<>>, << <<"a", ":", "b", ":", "c">>, <<"a", "b">> >> }

RenderJobs ==
    { [title |-> t, company |-> c, dates |-> <<"D">>, bullets |-> b] :
        t \in {<<"T">>, <<"U">>}, c \in RenderCompanies, b \in RenderBullets }

\* the most jobs in a rendered record
MaxJobs == 3

RenderRecords ==
    { [name |-> <<"J", "o">>, phone |-> <<"5">>, email |-> <<"e">>,
       location |-> <<"W">>, summary |-> <<"s", "u", "m">>,
       transition |-> <<"t", "r">>, jobs |-> js,
       competencies |-> << <<"k">>, <<"m">> >>,
       education |-> << [degree |-> <<"B", "A">>, school |-> <<"U", "n", "i">>,
                         date |-> <<"1">>, details |-> None] >>,
       certifications |-> << [name |-> <<"C", "e">>,
                              organization |-> <<"O", "r", "g">>,
                              date |-> <<"2">>] >>,
       personal |-> <<"p">>] :
        js \in SeqsUpTo(RenderJobs, MaxJobs) }

\* the lines of a section body: blank, plain, padded, and the lines the
\* scanners treat apart
ScanLineKinds ==
    { <<>>,
      <<"B", "A">>,
      <<" ", "x", " ">>,
      L_Graduated_SP \o <<"1">>,
      L_Pupil_Personnel,
      L_Bachelor,
      L_Issued_SP \o <<"2">> }

\* the most lines in a section body
MaxScanLines == 4

\* text.strip().split('\n'): at least one line; the first line starts and
\* the last line ends with a character that is not whitespace, unless the
\* text is empty
ScanBodies ==
    { ls \in SeqsUpTo(ScanLineKinds, MaxScanLines) :
        /\ Len(ls) >= 1
        /\ \/ ls = << <<>> >>
           \/ /\ ls[1] # <<>> /\ ls[1][1] \notin WS
              /\ ls[Len(ls)] # <<>>
              /\ ls[Len(ls)][Len(ls[Len(ls)])] \notin WS }

\* ------------------------------------------------------------------------
\* Specifications
\* ------------------------------------------------------------------------

InitWith(files) ==
    /\ pc = "start"
    /\ file \in files
    /\ data = NoData
    /\ gh = GhIdle
    /\ html = <<>>
    /\ first_html = <<>>
    /\ index_html = NoFile
    /\ invoked = <<>>
    /\ stdout = <<>>
    /\ status = -1
    /\ scan = ScanIdle

\* a run of main
Init == InitWith(MainFiles)

Next ==
    \/ Parse
    \/ GH_Enter
    \/ GH_Partition
    \/ GH_Austria
    \/ GH_California
    \/ GH_Template
    \/ Write
    \/ PdfTry
    \/ PdfGiveUp

Spec == Init /\ [][Next]_vars

\* parse_resume_data applied to a file
InitParse == InitWith(ParseFiles)

NextParse == Parse

SpecParse == InitParse /\ [][NextParse]_vars

\* generate_html called twice on a record
InitRender ==
    /\ pc = "call1"
    /\ file = Unreadable
    /\ data \in RenderRecords
    /\ gh = [GhIdle EXCEPT !.pc = "enter"]
    /\ html = <<>>
    /\ first_html = <<>>
    /\ index_html = NoFile
    /\ invoked = <<>>
    /\ stdout = <<>>
    /\ status = -1
    /\ scan = ScanIdle

NextRender ==
    \/ GH_Enter
    \/ GH_Partition
    \/ GH_Austria
    \/ GH_California
    \/ GH_Template
    \/ SecondCall

SpecRender == InitRender /\ [][NextRender]_vars

\* a line scanner run on a section body; the loop is sequential code that
\* keeps running, hence the fairness
InitScan ==
    /\ pc = "start"
    /\ file = Unreadable
    /\ data = NoData
    /\ gh = GhIdle
    /\ html = <<>>
    /\ first_html = <<>>
    /\ index_html = NoFile
    /\ invoked = <<>>
    /\ stdout = <<>>
    /\ status = -1
    /\ \E k \in {"edu", "cert"}, ls \in ScanBodies :
           scan = [scanner |-> k, pc |-> "loop", lines |-> ls, i |-> 0,
                   records |-> <<>>]

NextScan ==
    \/ EduLoop
    \/ CertLoop

SpecScan == InitScan /\ [][NextScan]_vars /\ WF_vars(NextScan)

\* the most jobs in a record rendered with varied fields
MaxVariedJobs == 2

\* generate_html called on a record and on a record that differs in its
\* certifications, transition and personal fields
InitIndep ==
    /\ InitRender
    /\ Len(data.jobs) <= MaxVariedJobs

NextIndep ==
    \/ GH_Enter
    \/ GH_Partition
    \/ GH_Austria
    \/ GH_California
    \/ GH_Template
    \/ VariedCall

SpecIndep == InitIndep /\ [][NextIndep]_vars

\* ------------------------------------------------------------------------
\* Properties of generate_html
\* ------------------------------------------------------------------------

\* the company of a job holds the substring 'Austria'
HoldsAustria(job) ==
    \E i \in 1..Len(job.company) :
        /\ i + 6 <= Len(job.company)
        /\ SubSeq(job.company, i, i + 6) = L_Austria

HoldsNoAustria(job) == ~HoldsAustria(job)

JobHeader(job) ==
    [title |-> job.title, company |-> job.company, dates |-> job.dates]

JobHeaders(jobs) == [n \in 1..Len(jobs) |-> JobHeader(jobs[n])]

\* the headers of the job blocks of an output, in the order they appear
RECURSIVE RenderedHeaders(_)
RenderedHeaders(h) ==
    LET i == Find(<<"<span class=job-title>">>, h, 1)
    IN  IF i = 0 THEN <<>>
        ELSE LET te == Find(<<"</span>">>, h, i)
                 ce == Find(<<"</span>">>, h, te + 2)
                 de == Find(<<"</span>">>, h, ce + 2)
             IN  << [title   |-> SubSeq(h, i + 1, te - 1),
                     company |-> SubSeq(h, te + 2, ce - 1),
                     dates   |-> SubSeq(h, ce + 2, de - 1)] >>
                 \o RenderedHeaders(SubSeq(h, de + 1, Len(h)))

\* number of occurrences of a token in an output
Count(tok, h) == Cardinality({i \in 1..Len(h) : h[i] = tok})

\* C1: the output of generate_html holds one block per job of the record:
\* first the jobs whose company holds 'Austria', then the others, each group
\* in the order of the input list.
C1_AustriaFirst ==
    gh.pc = "returned" =>
        RenderedHeaders(html) =
            JobHeaders(SelectSeq(data.jobs, HoldsAustria)
                       \o SelectSeq(data.jobs, HoldsNoAustria))

\* a record of three different jobs whose second job alone is in Austria, so
\* that the output moves it to the front, was rendered
C1_Witness ==
    /\ gh.pc = "returned"
    /\ Len(data.jobs) = 3
    /\ HoldsNoAustria(data.jobs[1])
    /\ HoldsAustria(data.jobs[2])
    /\ HoldsNoAustria(data.jobs[3])
    /\ data.jobs[1] # data.jobs[3]
    /\ RenderedHeaders(html)[1] = JobHeader(data.jobs[2])

\* C5: a second call of generate_html on the same record returns the same
\* output as the first, and no step of generate_html changes the record or
\* anything outside its own local variables and its result.
C5_Pure ==
    /\ [](pc = "call2" /\ gh.pc = "returned" => html = first_html)
    /\ [][data' = data /\ file' = file /\ index_html' = index_html
          /\ invoked' = invoked /\ stdout' = stdout /\ status' = status]_vars

\* the second call on a record with jobs of both buckets has returned
C5_Witness ==
    /\ pc = "call2"
    /\ gh.pc = "returned"
    /\ Len(html) > 0
    /\ \E m, n \in 1..Len(data.jobs) :
          HoldsAustria(data.jobs[m]) /\ HoldsNoAustria(data.jobs[n])

\* C7: the output holds a list element for exactly the jobs that have at
\* least one bullet; a job without bullets gets a header-only block, in
\* either bucket.
C7_NoEmptyList ==
    gh.pc = "returned" =>
        Count("<ul>", html) =
            Cardinality({n \in 1..Len(data.jobs) : data.jobs[n].bullets # <<>>})

\* ------------------------------------------------------------------------
\* Properties of parse_resume_data
\* ------------------------------------------------------------------------

\* the text holds the label followed by a value on the same line (the form
\* `LABEL: <value>` of a labeled field)
HasLabel(label, s) ==
    \E i \in 1..Len(s) :
        /\ MatchAt(label, s, i)
        /\ i + Len(label) <= Len(s)
        /\ s[i + Len(label)] # NL

\* the text after the first such label, up to the end of its line
LabelValue(label, s) ==
    LET i == Min({j \in 1..Len(s) : /\ MatchAt(label, s, j)
                                    /\ j + Len(label) <= Len(s)
                                    /\ s[j + Len(label)] # NL})
        e == Min({j \in (i + Len(label))..(Len(s) + 1) :
                     j = Len(s) + 1 \/ s[j] = NL})
    IN  SubSeq(s, i + Len(label), e - 1)

AllFourLabels(s) ==
    /\ HasLabel(L_NAME, s)
    /\ HasLabel(L_PHONE, s)
    /\ HasLabel(L_EMAIL, s)
    /\ HasLabel(L_LOCATION, s)

\* the starts of the matches of the two job patterns
BulletedSet(s) == {i \in 1..Len(s) : BulletedAt(s, i)}

BulletlessSet(s) == {i \in 1..Len(s) : BulletlessAt(s, i)}

\* the bulletless match at m captures the title and company of a bulleted one
HasBulletedTwin(s, m) ==
    \E b \in BulletedSet(s) :
        JobTitle(s, b) = JobTitle(s, m) /\ JobCompany(s, b) = JobCompany(s, m)

\* C2: when a (title, company) pair is captured by both job patterns, the
\* jobs list holds exactly one entry with that title and company, at the
\* position the bulleted pass gave it, and the bulletless pass appends an
\* entry only for a match that has no bulleted twin.
C2_Dedup ==
    pc = "render" =>
        LET s == file.content
            B == BulletedJobs(s, 1)
        IN  /\ \A m \in BulletlessSet(s) :
                  HasBulletedTwin(s, m) =>
                      LET N == {n \in 1..Len(data.jobs) :
                                   /\ data.jobs[n].title = JobTitle(s, m)
                                   /\ data.jobs[n].company = JobCompany(s, m)}
                      IN  /\ Cardinality(N) = 1
                          /\ \A n \in N : n <= Len(B) /\ data.jobs[n] = B[n]
            /\ Len(data.jobs) - Len(B)
                   <= Cardinality({m \in BulletlessSet(s) : ~HasBulletedTwin(s, m)})

\* the lines, from index p on, that start with a dash
RECURSIVE DashLines(_, _)
DashLines(s, p) ==
    IF p <= Len(s) /\ s[p] = "-"
    THEN LET e == Min({j \in p..(Len(s) + 1) : j = Len(s) + 1 \/ s[j] = NL})
         IN  <<SubSeq(s, p, e - 1)>> \o DashLines(s, e + 1)
    ELSE <<>>

\* a dash-prefixed line without its leading dash and surrounding whitespace
DashLineText(line) == Strip(Tail(line))

\* C3: a job header followed at once by dash-prefixed lines yields a job
\* whose bullets are those lines, in order, each without its leading dash
\* and its surrounding whitespace.
C3_Bullets ==
    pc = "render" =>
        LET s == file.content
        IN  \A i \in 1..Len(s) :
                (JobHeadAt(s, i) /\ DashLines(s, JobE3(s, i) + 1) # <<>>) =>
                    LET ls == DashLines(s, JobE3(s, i) + 1)
                    IN  \E n \in 1..Len(data.jobs) :
                            /\ data.jobs[n].title = JobTitle(s, i)
                            /\ data.jobs[n].company = JobCompany(s, i)
                            /\ data.jobs[n].dates = JobDates(s, i)
                            /\ data.jobs[n].bullets =
                                   [k \in 1..Len(ls) |-> DashLineText(ls[k])]

\* C4: with all four contact labels present, each parsed contact field is
\* the text after its label with leading and trailing whitespace removed.
C4_ContactStripped ==
    (pc = "render" /\ AllFourLabels(file.content)) =>
        /\ data.name = Strip(LabelValue(L_NAME, file.content))
        /\ data.phone = Strip(LabelValue(L_PHONE, file.content))
        /\ data.email = Strip(LabelValue(L_EMAIL, file.content))
        /\ data.location = Strip(LabelValue(L_LOCATION, file.content))

\* C8: a labeled text without a CORE COMPETENCIES: header and without the
\* delimiter parses without raising, to a record with empty competencies.
C8_NoCompetencies ==
    ( /\ pc # "start"
      /\ file.readable
      /\ AllFourLabels(file.content)
      /\ ~Contains(SubSeq(L_CORE_COMP_NL, 1, Len(L_CORE_COMP_NL) - 1),
                   file.content)
      /\ ~Contains(<<Star>>, file.content) )
    => (pc = "render" /\ data.competencies = <<>>)

\* the text holds none of the headers of a section
NoSummary(s) ==
    /\ ~Contains(SubSeq(L_SUMMARY_NL, 1, Len(L_SUMMARY_NL) - 1), s)
    /\ ~Contains(SubSeq(L_EXEC_SUMMARY_NL, 1, Len(L_EXEC_SUMMARY_NL) - 1), s)

NoTransition(s) ==
    ~Contains(SubSeq(L_TRANSITION_NL, 1, Len(L_TRANSITION_NL) - 1), s)

NoPersonal(s) == ~Contains(SubSeq(L_PERSONAL_NL, 1, Len(L_PERSONAL_NL) - 1), s)

NoJobs(s) ==
    /\ ~Contains(L_JOB_TITLE_C, s)
    /\ ~Contains(SubSeq(L_HR_HEADING, 1, Len(L_HR_HEADING) - 2), s)
    /\ ~Contains(L_SCHOOL_NAME, s)

NoEducation(s) ==
    /\ ~Contains(L_EDUCATION \o <<":">>, s)
    /\ ~Contains(L_Education, s)

NoCertifications(s) == ~Contains(SubSeq(L_CERT_NL2, 1, Len(L_CERT_NL2) - 2), s)

\* C10: a readable text whose contact block parses (all four labels, or no
\* NAME label) is parsed to a record without raising, and every optional
\* section the text lacks has its empty default in the record.
C10_Defaults ==
    ( /\ pc # "start"
      /\ file.readable
      /\ AllFourLabels(file.content) \/ ~HasLabel(L_NAME, file.content) )
    => /\ pc = "render"
       /\ status = -1
       /\ NoSummary(file.content) => data.summary = <<>>
       /\ NoTransition(file.content) => data.transition = <<>>
       /\ NoPersonal(file.content) => data.personal = <<>>
       /\ NoJobs(file.content) => data.jobs = <<>>
       /\ NoEducation(file.content) => data.education = <<>>
       /\ NoCertifications(file.content) => data.certifications = <<>>

\* a labeled text with a summary and a job and without transition note,
\* education, certifications and personal note was parsed
C10_Witness ==
    /\ pc = "render"
    /\ AllFourLabels(file.content)
    /\ data.summary # <<>>
    /\ data.jobs # <<>>
    /\ NoTransition(file.content)
    /\ NoEducation(file.content)
    /\ NoCertifications(file.content)
    /\ NoPersonal(file.content)
    /\ data.education = <<>>
    /\ data.personal = <<>>

\* ------------------------------------------------------------------------
\* Properties of main
\* ------------------------------------------------------------------------

\* every candidate run so far was missing or returned a non-zero status
NoneProduced == \A k \in 1..Len(invoked) : invoked[k] \in {"missing", "nonzero"}

FatalInput ==
    \/ ~file.readable
    \/ /\ HasLabel(L_NAME, file.content)
       /\ ~AllFourLabels(file.content)

\* C9: on an unreadable file, or a text with a NAME label that lacks one of
\* the PHONE, EMAIL and LOCATION labels, main writes no index.html and runs
\* no candidate, and its only step prints an error and returns non-zero.
C9_Abort ==
    FatalInput =>
        /\ ~index_html.written
        /\ invoked = <<>>
        /\ gh.pc = "idle"
        /\ pc # "start" =>
              /\ pc = "done"
              /\ status # 0 /\ status # -1
              /\ stdout[Len(stdout)] = "Error"

\* main has returned on a text with NAME, EMAIL and LOCATION and no PHONE
C9_Witness ==
    /\ pc = "done"
    /\ file.readable
    /\ HasLabel(L_NAME, file.content)
    /\ ~HasLabel(L_PHONE, file.content)
    /\ HasLabel(L_EMAIL, file.content)
    /\ HasLabel(L_LOCATION, file.content)
    /\ status = 1

\* ------------------------------------------------------------------------
\* Properties of generate_pdf
\* ------------------------------------------------------------------------

\* generate_pdf returned True / returned False, as its messages show
PdfReturnedTrue == \E k \in 1..Len(stdout) : stdout[k] = "PDF generated"

PdfReturnedFalse ==
    \E k \in 1..Len(stdout) : stdout[k] = "Could not generate PDF automatically"

\* C11: the candidates run one at a time in list order (the k-th run is the
\* k-th candidate of the list); a candidate runs only after every earlier
\* one was missing or exited non-zero; the first candidate that exits with 0
\* makes generate_pdf return True and ends the runs; generate_pdf returns
\* False only after all candidates were run.
C11_PdfOrder ==
    /\ [][\/ invoked' = invoked
          \/ /\ Len(invoked) < NumCandidates
             /\ ~PdfReturnedTrue /\ ~PdfReturnedFalse
             /\ \E o \in Outcomes : invoked' = Append(invoked, o)]_vars
    /\ [](\A k \in 1..Len(invoked) :
             /\ k < Len(invoked) => invoked[k] \in {"missing", "nonzero"}
             /\ invoked[k] = "zero" => (PdfReturnedTrue /\ pc = "done"))
    /\ [](PdfReturnedTrue =>
             (invoked # <<>> /\ invoked[Len(invoked)] = "zero"))
    /\ [](PdfReturnedFalse =>
             /\ Len(invoked) = NumCandidates
             /\ \A k \in 1..Len(invoked) : invoked[k] \in {"missing", "nonzero"})

\* the third candidate is the first to exit with 0, after a missing and a
\* failing one, and generate_pdf has returned True
C11_Witness ==
    /\ invoked = <<"missing", "nonzero", "zero">>
    /\ PdfReturnedTrue
    /\ pc = "done"

\* ------------------------------------------------------------------------
\* Properties of the positional contact line
\* ------------------------------------------------------------------------

\* the segments of the first line of the text, split at the delimiter
HeaderSegments(s) == Split(Split(s, NL)[1], Star)

\* where a segment splits into name and location: the starts b of a run of
\* two or more whitespace characters that a capital letter follows at c
SplitRuns(seg) ==
    {b \in 2..Len(seg) :
        \E c \in (b + 2)..Len(seg) : WsRun(seg, b, c) /\ seg[c] \in Upper}

NamePart(seg) == Strip(SubSeq(seg, 1, Min(SplitRuns(seg)) - 1))

LocationPart(seg) ==
    LET b == Min(SplitRuns(seg))
        c == Min({j \in (b + 2)..Len(seg) : WsRun(seg, b, j) /\ seg[j] \in Upper})
    IN  Strip(SubSeq(seg, c, Len(seg)))

\* C12: in positional layout, a first line of three delimiter-separated
\* segments gives the phone from the second and the email from the third,
\* and the first segment splits into name and location at its first run of
\* two or more spaces that a capitalized word follows, so that a name of
\* several words separated by single spaces stays whole.
C12_HeaderSplit ==
    ( /\ pc = "render"
      /\ ~HasLabel(L_NAME, file.content)
      /\ Len(HeaderSegments(file.content)) = 3 )
    => LET seg == HeaderSegments(file.content)
       IN  /\ data.phone = Strip(seg[2])
           /\ data.email = Strip(seg[3])
           /\ SplitRuns(Strip(seg[1])) # {} =>
                  /\ data.name = NamePart(Strip(seg[1]))
                  /\ data.location = LocationPart(Strip(seg[1]))

\* ------------------------------------------------------------------------
\* Properties of the order of the jobs list
\* ------------------------------------------------------------------------

\* the n-th smallest element of a set of indices
Nth(S, n) == CHOOSE x \in S : Cardinality({y \in S : y < x}) = n - 1

\* the title and company a bulletless match at m would be stored with
BulletlessPair(s, m) == <<Strip(JobTitle(s, m)), Strip(JobCompany(s, m))>>

\* the bulletless matches that add an entry: those whose pair is held
\* neither by a bulleted entry nor by an earlier bulletless match
KeptBulletless(s) ==
    {m \in BulletlessSet(s) :
        /\ \A b \in BulletedSet(s) :
               <<JobTitle(s, b), JobCompany(s, b)>> # BulletlessPair(s, m)
        /\ \A m2 \in BulletlessSet(s) :
               m2 < m => BulletlessPair(s, m2) # BulletlessPair(s, m)}

RECURSIVE RenderedItems(_)
RenderedItems(h) ==
    LET i == Find(<<"<li>">>, h, 1)
    IN  IF i = 0 THEN <<>>
        ELSE LET e == Find(<<"</li>">>, h, i)
             IN  <<SubSeq(h, i + 1, e - 1)>>
                 \o RenderedItems(SubSeq(h, e + 1, Len(h)))

\* the bullets of a list of jobs, job after job
RECURSIVE AllBullets(_)
AllBullets(jobs) ==
    IF jobs = <<>> THEN <<>>
    ELSE Head(jobs).bullets \o AllBullets(Tail(jobs))

HasColon(bullet) == \E k \in 1..Len(bullet) : bullet[k] = ":"

FirstColon(bullet) == Min({k \in 1..Len(bullet) : bullet[k] = ":"})

\* what the list item of a bullet holds
EmphasizedItem(bullet) ==
    IF HasColon(bullet)
    THEN <<"<strong>">> \o SubSeq(bullet, 1, FirstColon(bullet))
         \o <<"</strong>">>
         \o SubSeq(bullet, FirstColon(bullet) + 1, Len(bullet))
    ELSE bullet

\* C14: every bullet of every job is rendered as one list item; the item of
\* a bullet with a colon holds the text up to and including the first colon
\* inside the emphasis tag and then the rest unchanged, later colons
\* included; the item of a bullet without a colon holds the bullet verbatim.
C14_ColonEmphasis ==
    gh.pc = "returned" =>
        LET bs == AllBullets(SelectSeq(data.jobs, HoldsAustria)
                             \o SelectSeq(data.jobs, HoldsNoAustria))
        IN  RenderedItems(html) = [n \in 1..Len(bs) |-> EmphasizedItem(bs[n])]

\* a record with a bullet of two colons and a bullet without colon was
\* rendered, and the output holds their items
C14_Witness ==
    /\ gh.pc = "returned"
    /\ \E n \in 1..Len(data.jobs) :
           \E j, k \in 1..Len(data.jobs[n].bullets) :
               /\ Cardinality({x \in 1..Len(data.jobs[n].bullets[j]) :
                                  data.jobs[n].bullets[j][x] = ":"}) = 2
               /\ ~HasColon(data.jobs[n].bullets[k])
    /\ Len(RenderedItems(html)) >= 2
    /\ Count("<strong>", html) >= 1

\* ------------------------------------------------------------------------
\* Properties of the order of the steps of main
\* ------------------------------------------------------------------------

\* the position of main among its steps
StepOf(p) ==
    CASE p = "start" -> 0
      [] p = "render" -> 1
      [] p = "pdf" -> 2
      [] OTHER -> 3

\* the text was read and a record returned for it
Parsed == file.readable /\ data # NoData

\* generate_html has returned the output of the record
Rendered ==
    /\ gh.pc = "returned"
    /\ html = html_template(data, gh.jobs_html, comp_html(data.competencies),
                            edu_html(data.education))

\* the progress messages printed, without the closing ones
StepMessages ==
    <<"Reading resume data...", "Generating HTML...", "Writing index.html...",
      "HTML generated", "Generating PDF...">>

\* C15: main reads and parses, renders, writes index.html and only then
\* runs the candidates: rendering starts only on a parsed record, index.html
\* is touched only after parsing and rendering succeeded, no candidate runs
\* before index.html holds the whole output, and no step is taken twice or
\* out of order.
C15_MainOrder ==
    /\ [](gh.pc # "idle" => Parsed)
    /\ [](index_html # NoFile => (Parsed /\ Rendered /\ StepOf(pc) >= 2))
    /\ [](invoked # <<>> =>
             (index_html.written /\ index_html.text = html /\ Parsed /\ Rendered))
    /\ [](\A k \in 1..Len(stdout) :
             k <= Len(StepMessages) =>
                 stdout[k] \in {StepMessages[k], "Error"})
    /\ [][/\ StepOf(pc') >= StepOf(pc)
          /\ data' # data =>
                 /\ pc = "start" /\ gh.pc = "idle" /\ file.readable
                 /\ data' = parse_resume_data(file.content)
          /\ gh' # gh => (StepOf(pc') = 1 /\ index_html = NoFile)
          /\ index_html' # index_html =>
                 (pc = "render" /\ Rendered /\ invoked = <<>>)
          /\ invoked' # invoked =>
                 (pc = "pdf" /\ index_html.written /\ index_html' = index_html)]_vars

\* a run that took every step: the record was parsed and rendered,
\* index.html written, and a candidate run
C15_Witness ==
    /\ pc = "done"
    /\ status = 0
    /\ Parsed
    /\ Rendered
    /\ index_html.written
    /\ Len(invoked) >= 1

\* ------------------------------------------------------------------------
\* Properties of the line scanners
\* ------------------------------------------------------------------------

\* what the scanner of parse_resume_data returns for the lines
ScanResult ==
    IF scan.scanner = "edu"
    THEN EduScan(scan.lines, 0, <<>>)
    ELSE CertScan(scan.lines, 0, <<>>)

\* C16: the education and the certifications scanner terminate on every
\* section body; every iteration advances the line index, by 1 to 4 in the
\* education loop and by 1 or 3 in the certifications loop; an iteration
\* appends at most one record, so no line starts two records and there are
\* at most as many records as lines.
C16_ScannersTerminate ==
    /\ <>(scan.pc = "done")
    /\ [][(scan.scanner = "edu" /\ scan.pc = "loop") =>
              \/ /\ scan'.pc = "loop"
                 /\ scan.i < Len(scan.lines)
                 /\ scan'.i - scan.i \in 1..4
              \/ /\ scan'.pc = "done"
                 /\ scan.i >= Len(scan.lines)
                 /\ scan'.i = scan.i /\ scan'.records = scan.records]_vars
    /\ [][(scan.scanner = "cert" /\ scan.pc = "loop") =>
              \/ /\ scan'.pc = "loop"
                 /\ scan.i < Len(scan.lines)
                 /\ scan'.i - scan.i \in {1, 3}
              \/ /\ scan'.pc = "done"
                 /\ scan.i >= Len(scan.lines)
                 /\ scan'.i = scan.i /\ scan'.records = scan.records]_vars
    /\ [][/\ scan'.lines = scan.lines
          /\ scan'.scanner = scan.scanner
          /\ \/ scan'.records = scan.records
             \/ /\ Len(scan'.records) = Len(scan.records) + 1
                /\ SubSeq(scan'.records, 1, Len(scan.records)) = scan.records
                /\ scan'.i > scan.i]_vars
    /\ [](Len(scan.records) <= scan.i /\ Len(scan.records) <= Len(scan.lines))
    /\ [](scan.pc = "done" =>
             (scan.i >= Len(scan.lines) /\ scan.records = ScanResult))

\* a scanner has ended on a body of several lines, some of which started a
\* record and some of which did not
C16_Witness ==
    /\ scan.pc = "done"
    /\ Len(scan.lines) >= 3
    /\ Len(scan.records) >= 2
    /\ Len(scan.records) < Len(scan.lines)

\* ------------------------------------------------------------------------
\* Properties of the fields generate_html leaves out
\* ------------------------------------------------------------------------

\* the fields of a record that the output is made of
RenderedFields(d) ==
    <<d.name, d.location, d.email, d.phone, d.summary, d.jobs,
      d.competencies, d.education>>

\* C17: two records that agree on name, location, email, phone, summary,
\* jobs, competencies and education render to the same output, whatever
\* their certifications, transition and personal fields hold.
C17_Independent ==
    /\ []((pc = "call2v" /\ gh.pc = "returned") => html = first_html)
    /\ [][RenderedFields(data') = RenderedFields(data)]_vars

\* the second record, with other certifications, transition and personal
\* fields than the first, was rendered
C17_Witness ==
    /\ pc = "call2v"
    /\ gh.pc = "returned"
    /\ Len(html) > 0
    /\ Len(data.certifications) = 2
    /\ data.transition = <<"<", "p", ">", "z">>
    /\ data.personal = <<>>
    /\ data.jobs # <<>>

====
